---- MODULE Spec2Model ----
(***************************************************************************)
(* Model of packages/typegen/src/gdesc/write/inline.ts (slonik-tools):     *)
(* tag assignment (addTags), interface rendering (renderQueryInterface),   *)
(* the source patcher (getFileWriter / visit) and the batch entry point    *)
(* (writeTypeScriptFiles).                                                 *)
(***************************************************************************)
EXTENDS Integers, Sequences, FiniteSets, TLC

VARIABLES
  queries,          \* the AnalysedQuery[] handed to writeTypeScriptFiles
  tagged,           \* file -> TaggedQuery[] (result of groupBy + mapValues(addTags))
  pc,               \* position of the run: start, tagged, done, failed
  disk,             \* the file system: path -> text
  getQueriesModule, \* the destination mapping option of the run
  cursor,           \* number of files forIn has handed to the file writer
  log,              \* the file-system calls of the run, in order
  scheduled,        \* file -> the edits of its last pass
  runs,             \* number of completed runs
  history,          \* the disk after each completed run
  scan,             \* the source files, in the order the analysis reports them
  initial,          \* the disk the run started from
  steps,            \* file -> position of its handler, when handlers interleave
  input,            \* the argument of a function applied on its own
  output            \* its result

vars == <<queries, tagged, pc, disk, getQueriesModule, cursor, log, scheduled,
          runs, history, scan, initial, steps, input, output>>

fsVars == <<disk, getQueriesModule, cursor, log, scheduled, runs, history, scan,
            initial, steps, input, output>>

pureVars == <<input, output>>

(***************************************************************************)
(* Bounds                                                                  *)
(***************************************************************************)
MaxQueries == 3

(***************************************************************************)
(* Generic sequence helpers (lodash / Array.prototype)                     *)
(***************************************************************************)
Range(s) == {s[i] : i \in DOMAIN s}

RECURSIVE FlatSeq(_)
\* lodash.flatMap's concatenation of the per-element arrays
FlatSeq(ss) == IF ss = <<>> THEN <<>> ELSE Head(ss) \o FlatSeq(Tail(ss))

\* lodash.sortBy: stable, ascending; keys[i] is the sort key of s[i]
SortBy(s, keys) ==
  LET RECURSIVE Build(_)
      Build(ks) ==
        IF ks = {} THEN <<>>
        ELSE LET k == CHOOSE x \in ks : \A y \in ks : x <= y
                 RECURSIVE Bucket(_)
                 Bucket(i) == IF i > Len(s) THEN <<>>
                              ELSE (IF keys[i] = k THEN <<s[i]>> ELSE <<>>) \o Bucket(i + 1)
             IN  Bucket(1) \o Build(ks \ {k})
  IN  Build(Range(keys))

\* lodash.uniqBy: keeps the first element of every key; keys[i] is the key of s[i]
UniqBy(s, keys) ==
  LET RECURSIVE Pick(_)
      Pick(i) == IF i > Len(s) THEN <<>>
                 ELSE (IF \A j \in 1..(i - 1) : keys[j] # keys[i] THEN <<s[i]>> ELSE <<>>)
                      \o Pick(i + 1)
  IN  Pick(1)

(***************************************************************************)
(* Identifier Builder                                                      *)
(***************************************************************************)
Undefined == "<undefined>"

\* JSON.stringify of one property; a property holding undefined is dropped
JsonProp(key, value) ==
  IF value = Undefined THEN <<>> ELSE <<"\"" \o key \o "\":\"" \o value \o "\"">>

RECURSIVE JoinWith(_, _)
JoinWith(parts, sep) ==
  IF parts = <<>> THEN ""
  ELSE IF Len(parts) = 1 THEN parts[1]
  ELSE parts[1] \o sep \o JoinWith(Tail(parts), sep)

JsonField(f) ==
  "{" \o JoinWith(JsonProp("name", f.name)
                  \o JsonProp("column", f.column)
                  \o <<"\"notNull\":" \o (IF f.notNull THEN "true" ELSE "false")>>
                  \o JsonProp("typescript", f.typescript)
                  \o JsonProp("gdesc", f.gdesc)
                  \o JsonProp("comment", f.comment), ",") \o "}"

\* identifier: JSON.stringify(q.fields)
Identifier(q) ==
  "[" \o JoinWith([i \in DOMAIN q.fields |-> JsonField(q.fields[i])], ",") \o "]"

(***************************************************************************)
(* Tag Assigner: addTags                                                   *)
(***************************************************************************)
\* queries.map(q => ({...q, identifier: JSON.stringify(q.fields)}))
withIdentifiers(qs) ==
  [i \in DOMAIN qs |-> qs[i] @@ [identifier |-> Identifier(qs[i])]]

\* flatMap: one candidate per suggested tag, carrying all the alternatives
Candidates(wi) ==
  FlatSeq([i \in DOMAIN wi |->
    [j \in DOMAIN wi[i].suggestedTags |->
       [identifier |-> wi[i].identifier, tag |-> wi[i].suggestedTags[j],
        alternatives |-> wi[i].suggestedTags, query |-> i]]])

\* .sortBy(q => q.alternatives.length)
SortedCandidates(wi) ==
  LET cs == Candidates(wi)
  IN  SortBy(cs, [i \in DOMAIN cs |-> Len(cs[i].alternatives)])

\* lodash.findIndex(arr, o => o.tag === q.tag), 0-based
firstWithTagIndex(arr, c) ==
  (CHOOSE i \in DOMAIN arr :
      arr[i].tag = c.tag /\ \A j \in 1..(i - 1) : arr[j].tag # c.tag) - 1

\* q.tag + '_' + firstWithTagIndex
SuffixedTag(tag, index) == tag \o "_" \o ToString(index)

\* the .map step: keep the tag when the first claimant has the same identifier
Prioritised(arr) ==
  [i \in DOMAIN arr |->
     LET first == firstWithTagIndex(arr, arr[i])
         matchesFirstTag == arr[first + 1].identifier = arr[i].identifier
     IN  [identifier |-> arr[i].identifier,
          tag |-> IF matchesFirstTag THEN arr[i].tag ELSE SuffixedTag(arr[i].tag, first),
          alternatives |-> arr[i].alternatives, query |-> arr[i].query,
          priority |-> IF matchesFirstTag THEN 0 ELSE 1]]

\* mutant of Survivors: the candidates are not sorted by priority before uniqBy
SurvivorsUnsorted(wi) ==
  LET p == Prioritised(SortedCandidates(wi))
  IN  UniqBy(p, [i \in DOMAIN p |-> p[i].identifier])

\* .sortBy(q => q.priority).uniqBy(q => q.identifier)
Survivors(wi) ==
  LET p == Prioritised(SortedCandidates(wi))
      sorted == SortBy(p, [i \in DOMAIN p |-> p[i].priority])
  IN  UniqBy(sorted, [i \in DOMAIN sorted |-> sorted[i].identifier])

\* .keyBy(q => q.identifier): identifier -> surviving candidate
tagMap(wi) ==
  LET u == Survivors(wi)
  IN  [id \in {u[i].identifier : i \in DOMAIN u} |->
         (CHOOSE c \in Range(u) : c.identifier = id)]

\* mutant of addTags: every query takes its own first suggestion
addTagsOwnSuggestion(qs) ==
  LET wi == withIdentifiers(qs)
  IN  [threw |-> FALSE,
       value |-> [i \in DOMAIN wi |->
                    wi[i] @@ [tag |-> IF wi[i].suggestedTags = <<>> THEN "undefined"
                                      ELSE wi[i].suggestedTags[1]]]]

\* tagMap[q.identifier].tag throws a TypeError when the identifier has no entry
addTags(qs) ==
  LET wi == withIdentifiers(qs)
      tm == tagMap(wi)
  IN  IF \E i \in DOMAIN wi : wi[i].identifier \notin DOMAIN tm
      THEN [threw |-> TRUE, value |-> <<>>]
      ELSE [threw |-> FALSE,
            value |-> [i \in DOMAIN wi |-> wi[i] @@ [tag |-> tm[wi[i].identifier].tag]]]

(***************************************************************************)
(* Source text.  A text is a sequence of tokens [k, v]; an offset is a     *)
(* number of tokens.  Kinds: "code", "nl" (whitespace), "sql" (the         *)
(* identifier sql), "targs" (type arguments <...>), "tpl" (a template      *)
(* literal), "module" (module queries {), "close" (the } of a module),     *)
(* "iface" (an interface declaration with its comment), "import".          *)
(***************************************************************************)
Tok(k, v) == [k |-> k, v |-> v]

Code == Tok("code", "x")
Nl == Tok("nl", "\n")
SqlId == Tok("sql", "sql")
Tpl(sql) == Tok("tpl", sql)
ModuleOpen == Tok("module", "module queries {")
ModuleClose == Tok("close", "}")

\* String.prototype.slice(a, b) with 0 <= a: both ends are clamped to the length
Slice(s, a, b) == SubSeq(s, a + 1, IF b < Len(s) THEN b ELSE Len(s))

SliceFrom(s, a) == SubSeq(s, a + 1, Len(s))

(***************************************************************************)
(* Interface Renderer                                                      *)
(***************************************************************************)
\* jsdocComment: the lines that are strings, as one comment
jsdocComment(lines) ==
  LET kept == SelectSeq(lines, LAMBDA l : l # Undefined)
  IN  IF Len(kept) <= 1
      THEN "/** " \o JoinWith(kept, "") \o " */"
      ELSE "/**\n* " \o JoinWith(kept, "\n*\n* ") \o "\n*/"

\* the type of a property: nullable unless notNull, any or unknown
FieldType(f) ==
  IF f.notNull \/ f.typescript = "any" \/ f.typescript = "unknown"
  THEN f.typescript
  ELSE "(" \o f.typescript \o ") | null"

\* column / not null / postgres type, the falsy entries dropped
FieldMeta(f) ==
  JoinWith((IF f.column # Undefined THEN <<"column: " \o f.column>> ELSE <<>>)
           \o (IF f.notNull THEN <<"not null: true">> ELSE <<>>)
           \o (IF f.gdesc # Undefined THEN <<"postgres type: " \o f.gdesc>> ELSE <<>>),
           ", ")

interfaceBody(query) ==
  "{ " \o JoinWith([i \in DOMAIN query.fields |->
                      jsdocComment(<<query.fields[i].comment, FieldMeta(query.fields[i])>>)
                      \o " \"" \o query.fields[i].name \o "\": "
                      \o FieldType(query.fields[i])], "\n")
       \o " }"

\* new Set(bodies).size !== 1: the assertion of renderQueryInterface fails
InconsistentBodies(queryGroup) ==
  \E i, j \in DOMAIN queryGroup : interfaceBody(queryGroup[i]) # interfaceBody(queryGroup[j])

renderQueryInterface(queryGroup, interfaceName) ==
  LET comments ==
        IF Len(queryGroup) = 1
        THEN <<"- query: " \o queryGroup[1].sql, queryGroup[1].comment>>
        ELSE <<"queries:\n" \o JoinWith([i \in DOMAIN queryGroup |->
                                          "- " \o queryGroup[i].sql], "\n")>>
             \o [i \in DOMAIN queryGroup |-> queryGroup[i].comment]
  IN  Tok("iface", jsdocComment(comments) \o " export interface " \o interfaceName
                   \o " " \o interfaceBody(queryGroup[1]))

\* ts printer: re-prints the nodes one per line, ending with a line break
tsPrettify(tokens) == SelectSeq(tokens, LAMBDA t : t.k # "nl") \o <<Nl>>

\* lodash.groupBy(group, q => q.tag): the tags in order of first occurrence
TagsOf(group) ==
  LET tags == [i \in DOMAIN group |-> group[i].tag]
  IN  UniqBy(tags, tags)

TagGroup(group, tag) == SelectSeq(group, LAMBDA q : q.tag = tag)

\* mutant of RenderThrows: only the first tag group is asserted
RenderThrowsFirstGroup(group) ==
  InconsistentBodies(TagGroup(group, TagsOf(group)[1]))

\* some tag group of the file fails the assertion
RenderThrows(group) ==
  \E t \in Range(TagsOf(group)) : InconsistentBodies(TagGroup(group, t))

queryInterfaces(group) ==
  LET tags == TagsOf(group)
  IN  tsPrettify(FlatSeq([i \in DOMAIN tags |->
        (IF i = 1 THEN <<>> ELSE <<Nl, Nl>>)
        \o <<renderQueryInterface(TagGroup(group, tags[i]), tags[i])>>]))

queriesModule(group) ==
  <<Nl>> \o tsPrettify(<<Nl, ModuleOpen>> \o queryInterfaces(group) \o <<ModuleClose, Nl>>)

(***************************************************************************)
(* Source Patcher: the syntax tree of a text and the walk of visit         *)
(***************************************************************************)
\* ts.isModuleDeclaration(node) && node.name.getText() === queries, at token i
IsQueriesModule(text, i) == text[i].k = "module"

RECURSIVE CloseOf(_, _, _)
\* the token closing the block opened before position i at nesting depth d;
\* a block that is never closed ends with the text
CloseOf(text, i, d) ==
  IF i > Len(text) THEN Len(text)
  ELSE IF text[i].k = "module" THEN CloseOf(text, i + 1, d + 1)
  ELSE IF text[i].k = "close"
       THEN (IF d = 1 THEN i ELSE CloseOf(text, i + 1, d - 1))
  ELSE CloseOf(text, i + 1, d)

\* node.getEnd() of the module declaration at token i, as an offset
ModuleEnd(text, i) == CloseOf(text, i + 1, 1)

\* ts.isTaggedTemplateExpression(node) with the identifier sql as its tag, at token i
IsSqlCall(text, i) ==
  /\ text[i].k = "sql"
  /\ \/ i + 1 <= Len(text) /\ text[i + 1].k = "tpl"
     \/ i + 2 <= Len(text) /\ text[i + 1].k = "targs" /\ text[i + 2].k = "tpl"

\* the token of node.template
TemplateAt(text, i) == IF text[i + 1].k = "tpl" THEN i + 1 ELSE i + 2

RECURSIVE TriviaBefore(_, _)
\* the first token of the whitespace run that ends before token i
TriviaBefore(text, i) ==
  IF i > 1 /\ text[i - 1].k = "nl" THEN TriviaBefore(text, i - 1) ELSE i

\* node.getFullText(): the call with its leading trivia
FullText(text, i) == SubSeq(text, TriviaBefore(text, i), TemplateAt(text, i))

\* group.find(q => q.text === node.getFullText()), 0 when there is none
MatchIndex(group, fullText) ==
  IF \E j \in DOMAIN group : group[j].text = fullText
  THEN CHOOSE j \in DOMAIN group :
         group[j].text = fullText /\ \A h \in 1..(j - 1) : group[h].text # fullText
  ELSE 0

\* the replacement sql<queries.${match.tag}>
TypedSql(tag) == <<SqlId, Tok("targs", "<queries." \o tag \o ">")>>

Edit(start, end, replacement) ==
  [start |-> start, end |-> end, replacement |-> replacement]

\* the edits visit pushes at the node starting at token i
NodeEdits(text, group, i) ==
  (IF IsQueriesModule(text, i)
   THEN <<Edit(i - 1, ModuleEnd(text, i), <<>>)>>
   ELSE <<>>)
  \o (IF IsSqlCall(text, i) /\ MatchIndex(group, FullText(text, i)) # 0
      THEN <<Edit(i - 1, TemplateAt(text, i) - 1,
                  TypedSql(group[MatchIndex(group, FullText(text, i))].tag))>>
      ELSE <<>>)

\* visit(sourceFile): a pre-order walk, so the edits come in order of node start
visit(text, group) ==
  FlatSeq([i \in DOMAIN text |-> NodeEdits(text, group, i)])

RECURSIVE Splice(_, _)
\* edits.forEach(e => source = source.slice(0, e.start) + e.replacement + source.slice(e.end))
Splice(source, edits) ==
  IF edits = <<>> THEN source
  ELSE Splice(Slice(source, 0, Head(edits).start) \o Head(edits).replacement
              \o SliceFrom(source, Head(edits).end), Tail(edits))

\* mutant of ApplyEdits: the edits are spliced in ascending order of end offset
ApplyEditsAscending(source, edits) ==
  Splice(source, SortBy(edits, [i \in DOMAIN edits |-> edits[i].end]))

\* lodash.sortBy(edits, e => -e.end).forEach(...)
ApplyEdits(source, edits) ==
  Splice(source, SortBy(edits, [i \in DOMAIN edits |-> 0 - edits[i].end]))

(***************************************************************************)
(* Output Router                                                           *)
(***************************************************************************)
Path(dir, base, ext) == [dir |-> dir, base |-> base, ext |-> ext]

\* filepath.endsWith('.ts') ? filepath
\*   : path.join(path.dirname(filepath), '__sql__', path.basename(filepath) + '.ts')
defaultGetQueriesModule(filepath) ==
  IF filepath.ext = ".ts" THEN filepath
  ELSE Path(Append(filepath.dir, "__sql__"), filepath.base \o filepath.ext, ".ts")

\* the destination mappings a caller passes as options.getQueriesModule
DestPath(mapping, filepath) ==
  CASE mapping = "default" -> defaultGetQueriesModule(filepath)
    [] mapping = "sibling" -> Path(filepath.dir, filepath.base \o ".queries", ".ts")
    [] mapping = "shared"  -> Path(<<"src">>, "types", ".ts")

RECURSIVE CommonPrefix(_, _)
CommonPrefix(a, b) ==
  IF a # <<>> /\ b # <<>> /\ Head(a) = Head(b)
  THEN 1 + CommonPrefix(Tail(a), Tail(b)) ELSE 0

\* relativeUnixPath(destPath, path.dirname(file)), the extension .js/.ts/.tsx dropped
ImportPath(destPath, file) ==
  LET n == CommonPrefix(destPath.dir, file.dir)
      ups == [i \in 1..(Len(file.dir) - n) |-> ".."]
      downs == SubSeq(destPath.dir, n + 1, Len(destPath.dir))
      ext == IF destPath.ext \in {".js", ".ts", ".tsx"} THEN "" ELSE destPath.ext
  IN  JoinWith(ups \o downs \o <<destPath.base \o ext>>, "/")

\* the three spellings the import-existence check accepts
ImportSingle(destPath, file) ==
  "import * as queries from './" \o ImportPath(destPath, file) \o "'"

ImportDouble(destPath, file) ==
  "import * as queries from \"./" \o ImportPath(destPath, file) \o "\""

ImportDefault(destPath, file) ==
  "import queries from './" \o ImportPath(destPath, file) \o "'"

\* source.includes(statement)
Includes(source, statement) == \E i \in DOMAIN source : source[i].v = statement

importExists(source, destPath, file) ==
  \/ Includes(source, ImportSingle(destPath, file))
  \/ Includes(source, ImportDouble(destPath, file))
  \/ Includes(source, ImportDefault(destPath, file))

RECURSIVE CollapseNl(_)
CollapseNl(text) ==
  IF Len(text) < 2 THEN text
  ELSE IF text[1].k = "nl" /\ text[2].k = "nl" THEN CollapseNl(Tail(text))
  ELSE <<Head(text)>> \o CollapseNl(Tail(text))

\* the formatting collaborator: no blank lines at the top, runs of white space
\* collapsed, one line break at the end
prettifyOne(content) ==
  LET c == CollapseNl(content)
      body == IF c # <<>> /\ c[1].k = "nl" THEN Tail(c) ELSE c
  IN  IF body = <<>> \/ body[Len(body)].k = "nl" THEN body ELSE Append(body, Nl)

(***************************************************************************)
(* getFileWriter: the handler of one file                                  *)
(***************************************************************************)
IO(op, path, by) == [op |-> op, path |-> path, by |-> by]

WriteTo(d, path, content) ==
  [p \in DOMAIN d \cup {path} |-> IF p = path THEN content ELSE d[p]]

\* the edits of one pass: those of visit, then the block appended at the end of
\* the file or the import inserted at its top
EditsOf(source, group, file, destPath) ==
  visit(source, group)
  \o (IF destPath = file
      THEN <<Edit(Len(source), Len(source), queriesModule(group))>>
      ELSE IF ~importExists(source, destPath, file)
           THEN <<Edit(0, 0, <<Tok("import", ImportSingle(destPath, file)), Nl>>)>>
           ELSE <<>>)

\* the handler with its destination resolved: what it throws, the disk it
\* leaves, its file-system calls
FileWriterTo(d, destPath, group, file) ==
  LET source == d[file]
      edits == EditsOf(source, group, file, destPath)
      patched == ApplyEdits(source, edits)
      afterDest == IF destPath = file THEN d
                   ELSE WriteTo(d, destPath, prettifyOne(queryInterfaces(group)))
      opened == <<IO("read", file, file)>>
                \o (IF destPath = file THEN <<>> ELSE <<IO("mkdir", destPath, file)>>)
  IN  IF RenderThrows(group)
      THEN [threw |-> TRUE, disk |-> d, edits |-> visit(source, group),
            patched |-> source, destPath |-> destPath, ops |-> opened]
      ELSE [threw |-> FALSE,
            destPath |-> destPath,
            disk |-> IF file.ext = ".sql" THEN afterDest
                     ELSE WriteTo(afterDest, file, prettifyOne(patched)),
            edits |-> edits,
            patched |-> patched,
            ops |-> opened
                    \o (IF destPath = file THEN <<>> ELSE <<IO("write", destPath, file)>>)
                    \o (IF file.ext = ".sql" THEN <<>> ELSE <<IO("write", file, file)>>)]

\* mutant of getFileWriter: every file gets the same destination
getFileWriterOneDest(d, mapping, group, file) ==
  FileWriterTo(d, DestPath("shared", file), group, file)

\* const destPath = getQueriesModule(file)
getFileWriter(d, mapping, group, file) ==
  FileWriterTo(d, DestPath(mapping, file), group, file)

(***************************************************************************)
(* writeTypeScriptFiles: groupBy(q => q.file).mapValues(addTags).forIn(..) *)
(***************************************************************************)
\* the keys of lodash.groupBy(queries, q => q.file), in order of first occurrence
FilesOf(qs) ==
  LET names == [i \in DOMAIN qs |-> qs[i].file]
  IN  UniqBy(names, names)

GroupOf(qs, file) == SelectSeq(qs, LAMBDA q : q.file = file)

\* mapValues(addTags) is evaluated for every group before forIn starts
AssignTags ==
  /\ pc = "start"
  /\ LET groups == [f \in Range(FilesOf(queries)) |-> addTags(GroupOf(queries, f))]
     IN  IF \E f \in DOMAIN groups : groups[f].threw
         THEN /\ pc' = "failed"
              /\ UNCHANGED tagged
         ELSE /\ pc' = "tagged"
              /\ tagged' = [f \in DOMAIN groups |-> groups[f].value]
  /\ UNCHANGED <<queries, fsVars>>

\* forIn hands the next group to the file writer; an exception ends the run
WriteFile ==
  /\ pc = "tagged"
  /\ cursor < Len(FilesOf(queries))
  /\ LET file == FilesOf(queries)[cursor + 1]
         r == getFileWriter(disk, getQueriesModule, tagged[file], file)
     IN  /\ pc' = IF r.threw THEN "failed" ELSE "tagged"
         /\ disk' = r.disk
         /\ log' = log \o r.ops
         /\ scheduled' = [f \in DOMAIN scheduled \cup {file} |->
                            IF f = file
                            THEN [edits |-> r.edits, source |-> disk[file],
                                  patched |-> r.patched, threw |-> r.threw]
                            ELSE scheduled[f]]
         /\ cursor' = cursor + 1
  /\ UNCHANGED <<queries, tagged, getQueriesModule, runs, history, scan,
                 initial, steps, pureVars>>

\* forIn has gone through every group: the run completes
Finish ==
  /\ pc = "tagged"
  /\ cursor = Len(FilesOf(queries))
  /\ pc' = "done"
  /\ runs' = runs + 1
  /\ history' = Append(history, disk)
  /\ UNCHANGED <<queries, tagged, disk, getQueriesModule, cursor, log, scheduled,
                 scan, initial, steps, pureVars>>

(***************************************************************************)
(* Inputs of the tag assigner                                              *)
(***************************************************************************)
Field(name, typescript, notNull, column) ==
  [name |-> name, typescript |-> typescript, notNull |-> notNull,
   column |-> column, gdesc |-> Undefined, comment |-> Undefined]

FieldLists ==
  { <<Field("a", "number", TRUE, "t.a")>>,
    <<Field("a", "number", FALSE, "t.a")>>,
    <<Field("a", "number", TRUE, "t.a"), Field("b", "any", FALSE, Undefined)>> }

TagLists ==
  { <<>>, <<"T">>, <<"U">>, <<"T", "U">>, <<"U", "T">>, <<"T_0">> }

FileNames == {Path(<<"src">>, "a", ".ts"), Path(<<"src">>, "b", ".ts")}

Query(file, sql, text, fields, suggestedTags) ==
  [file |-> file, sql |-> sql, text |-> text, fields |-> fields,
   suggestedTags |-> suggestedTags, comment |-> Undefined]

\* every shape of query in one file
OneFileQueries ==
  {Query(Path(<<"src">>, "a", ".ts"), "sql", <<>>, fl, tl) : fl \in FieldLists, tl \in TagLists}

\* queries spread over two files
TwoFileQueries ==
  {Query(f, "sql", <<>>, fl, tl) :
     f \in FileNames,
     fl \in {x \in FieldLists : Len(x) = 1},
     tl \in {<<"T">>, <<"U">>, <<"T", "U">>}}

SeqsUpTo(S, n) == UNION {[1..k -> S] : k \in 1..n}

\* the tag assigner alone: no file is touched
NoFiles ==
  /\ disk = <<>>
  /\ getQueriesModule = "default"
  /\ cursor = 0
  /\ log = <<>>
  /\ scheduled = <<>>
  /\ runs = 0
  /\ history = <<>>
  /\ scan = <<>>
  /\ initial = <<>>
  /\ steps = <<>>

InitTags ==
  /\ queries \in SeqsUpTo(OneFileQueries, MaxQueries) \cup SeqsUpTo(TwoFileQueries, MaxQueries)
  /\ tagged = <<>>
  /\ pc = "start"
  /\ NoFiles
  /\ input = <<>>
  /\ output = <<>>

NextTags == AssignTags

SpecTags == InitTags /\ [][NextTags]_vars

(***************************************************************************)
(* Claims about tag assignment (checked under SpecTags)                    *)
(***************************************************************************)
TaggedFiles == IF pc = "tagged" THEN DOMAIN tagged ELSE {}

AllSuggest(qs) == \A i \in DOMAIN qs : qs[i].suggestedTags # <<>>

\* C1: within one file, two queries with different Identifiers never get the
\* same tag (for every list of queries with non-empty suggestedTags).
C1_DistinctIdentifiersDistinctTags ==
  \A f \in TaggedFiles :
    AllSuggest(tagged[f]) =>
      \A i, j \in DOMAIN tagged[f] :
        tagged[f][i].identifier # tagged[f][j].identifier
          => tagged[f][i].tag # tagged[f][j].tag

CollidingPairs(g) ==
  {p \in (DOMAIN g) \X (DOMAIN g) :
     /\ g[p[1]].suggestedTags # <<>> /\ g[p[2]].suggestedTags # <<>>
     /\ g[p[1]].identifier # g[p[2]].identifier
     /\ g[p[1]].suggestedTags[1] = g[p[2]].suggestedTags[1]
     /\ \/ Len(g[p[1]].suggestedTags) < Len(g[p[2]].suggestedTags)
        \/ /\ Len(g[p[1]].suggestedTags) = Len(g[p[2]].suggestedTags)
           /\ p[1] < p[2]}

\* 0-based index in the sorted candidate list of query w's candidate for tag t
CandidateIndex(arr, w, t) ==
  (CHOOSE i \in DOMAIN arr : arr[i].query = w /\ arr[i].tag = t) - 1

Carrying(arr, id) == {i \in DOMAIN arr : arr[i].identifier = id}

\* positions whose tag is first claimed by a candidate of the same Identifier
Keeping(arr, id) ==
  {i \in Carrying(arr, id) :
     arr[firstWithTagIndex(arr, arr[i]) + 1].identifier = id}

Min(S) == CHOOSE x \in S : \A y \in S : x <= y

C8_AssignmentNeverThrows == pc # "failed"

\* every Identifier of the group is carried by a query that suggests a tag
EveryIdentifierSuggests(qs) ==
  \A i \in DOMAIN qs :
    \E j \in DOMAIN qs :
      /\ Identifier(qs[j]) = Identifier(qs[i])
      /\ qs[j].suggestedTags # <<>>

\* Extent of the failure of C8: when, in every file, each query's Identifier
\* is carried by at least one query with a non-empty suggestedTags, tag
\* assignment completes and resolves every query of the input to a tag.
C8_TotalWhenSuggested ==
  (/\ pc # "start"
   /\ \A f \in Range(FilesOf(queries)) : EveryIdentifierSuggests(GroupOf(queries, f)))
  => /\ pc = "tagged"
     /\ \A f \in Range(FilesOf(queries)) :
          /\ f \in DOMAIN tagged
          /\ Len(tagged[f]) = Len(GroupOf(queries, f))
          /\ \A i \in DOMAIN tagged[f] : "tag" \in DOMAIN tagged[f][i]

\* a query without suggested tags is resolved through another query's tags
C8_Witness ==
  /\ pc = "tagged"
  /\ \E f \in DOMAIN tagged :
       \E i \in DOMAIN tagged[f] : tagged[f][i].suggestedTags = <<>>

(***************************************************************************)
(* The analysis collaborator: the queries of the call sites of the files   *)
(***************************************************************************)
SqlA == "select a from t"
SqlB == "select a from t2"
SqlC == "select a, b from t"
SqlX == "select x"

\* what the database says about each statement it can describe
Described == {SqlA, SqlB, SqlC}

FieldsOfSql(sql) ==
  CASE sql = SqlA -> <<Field("a", "number", TRUE, "t.a")>>
    [] sql = SqlB -> <<Field("a", "number", FALSE, "t.a")>>
    [] sql = SqlC -> <<Field("a", "number", TRUE, "t.a"), Field("b", "any", FALSE, Undefined)>>

\* one query per described call site, its text the full text of the call
AnalyseFile(d, file) ==
  LET text == d[file]
  IN  FlatSeq([i \in DOMAIN text |->
        IF IsSqlCall(text, i) /\ text[TemplateAt(text, i)].v \in Described
        THEN <<Query(file, text[TemplateAt(text, i)].v, FullText(text, i),
                     FieldsOfSql(text[TemplateAt(text, i)].v), <<"T">>)>>
        ELSE <<>>])

Analyse(d, files) == FlatSeq([i \in DOMAIN files |-> AnalyseFile(d, files[i])])

(***************************************************************************)
(* Runs over files                                                         *)
(***************************************************************************)
MaxFragments == 4
MaxRuns == 3

Call(sql) == <<SqlId, Tpl(sql)>>

Fragments ==
  { <<Code>>, <<Nl>>, Call(SqlA), Call(SqlX), <<ModuleOpen>>, <<ModuleClose>> }

\* the texts of the file the patcher is run on again and again
PatchTexts ==
  {FlatSeq(fs) : fs \in SeqsUpTo(Fragments, MaxFragments)}

FileA == Path(<<"src">>, "a", ".ts")
FileB == Path(<<"src">>, "b", ".ts")
FileC == Path(<<"src">>, "c", ".js")
FileD == Path(<<"src", "__sql__">>, "c.js", ".ts")

\* the texts of the files of a batch
BatchTexts ==
  { Call(SqlA) \o <<Nl>>,
    Call(SqlA) \o <<Nl>> \o Call(SqlB) \o <<Nl>>,
    Call(SqlA) \o <<Nl>> \o Call(SqlB) \o <<Nl>> \o Call(SqlC) \o <<Nl>> }

BatchScans ==
  { <<FileA, FileB>>, <<FileB, FileA>>, <<FileA, FileC>>, <<FileC, FileA>>,
    <<FileC, FileD>>, <<FileD, FileC>> }

\* the patcher on one file
InitPatch ==
  /\ scan = <<FileA>>
  /\ getQueriesModule \in {"default", "sibling"}
  /\ \E text \in PatchTexts : disk = [p \in {FileA} |-> text]

\* a batch of two files
InitBatch ==
  /\ scan \in BatchScans
  /\ getQueriesModule \in {"default", "sibling", "shared"}
  /\ disk \in [Range(scan) -> BatchTexts]

\* a run about to start on the files of the disk
FreshRun ==
  /\ queries = Analyse(disk, scan)
  /\ initial = disk
  /\ tagged = <<>>
  /\ pc = "start"
  /\ cursor = 0
  /\ log = <<>>
  /\ scheduled = <<>>
  /\ runs = 0
  /\ history = <<>>
  /\ steps = <<>>
  /\ input = <<>>
  /\ output = <<>>

Init ==
  /\ InitPatch \/ InitBatch
  /\ FreshRun

\* the tool is run again on the files it left
Rerun ==
  /\ pc = "done"
  /\ runs < MaxRuns
  /\ queries' = Analyse(disk, scan)
  /\ tagged' = <<>>
  /\ pc' = "start"
  /\ cursor' = 0
  /\ log' = <<>>
  /\ initial' = disk
  /\ UNCHANGED <<disk, getQueriesModule, scheduled, runs, history, scan, steps, pureVars>>

Next == AssignTags \/ WriteFile \/ Finish \/ Rerun

Spec == Init /\ [][Next]_vars

(***************************************************************************)
(* Claims about the patcher and the batch (checked under Spec)             *)
(***************************************************************************)
\* the queries regions of a text
Regions(text) == Cardinality({i \in DOMAIN text : text[i].k = "module"})

\* the import lines of a text for the destination of file
ImportLines(text, file) ==
  Cardinality({i \in DOMAIN text :
    text[i].v \in {ImportSingle(DestPath(getQueriesModule, file), file),
                   ImportDouble(DestPath(getQueriesModule, file), file),
                   ImportDefault(DestPath(getQueriesModule, file), file)}})

\* two edits of a pass overlap
Overlapping(edits) ==
  \E i, j \in DOMAIN edits :
    i # j /\ edits[i].start < edits[j].end /\ edits[j].start < edits[i].end

\* the patcher run on one file
SingleFile == Len(scan) = 1

\* C4: after one run and any number of further runs on its own output, the
\* file has exactly one queries region (destination = source) or exactly one
\* import line (destination differs), and its text is that of the first run.
C4_RerunIdempotent ==
  SingleFile =>
    \A f \in DOMAIN scheduled :
      \A k \in DOMAIN history :
        /\ DestPath(getQueriesModule, f) = f => Regions(history[k][f]) = 1
        /\ DestPath(getQueriesModule, f) # f => ImportLines(history[k][f], f) = 1
        /\ history[k][f] = history[1][f]

\* C6: when two edits of a pass overlap, the patcher fails and does not write
\* the file.
C6_OverlapFailsLoudly ==
  \A f \in DOMAIN scheduled :
    Overlapping(scheduled[f].edits) =>
      /\ scheduled[f].threw
      /\ \A i \in DOMAIN log : ~(log[i].op = "write" /\ log[i].by = f)

\* the call sites of a text that match a query of the group
MatchedCalls(text, group) ==
  {i \in DOMAIN text : IsSqlCall(text, i) /\ MatchIndex(group, FullText(text, i)) # 0}

C7_InconsistentGroupAborts ==
  \A n \in 1..cursor :
    LET f == FilesOf(queries)[n]
    IN  (pc # "start" /\ \E t \in Range(TagsOf(tagged[f])) :
                            InconsistentBodies(TagGroup(tagged[f], t)))
        => /\ pc = "failed"
           /\ n = cursor
           /\ \A i \in DOMAIN log : log[i].by = f => log[i].op # "write"
           /\ \A m \in (n + 1)..Len(FilesOf(queries)) :
                \A i \in DOMAIN log : log[i].by # FilesOf(queries)[m]

\* a run fails at a file that is followed by another
C7_Witness ==
  /\ pc = "failed"
  /\ cursor >= 1
  /\ cursor < Len(FilesOf(queries))
  /\ RenderThrows(tagged[FilesOf(queries)[cursor]])

(***************************************************************************)
(* The handlers of the files of one run, interleaved.  Each handler reads  *)
(* its source (line 145), writes its destination (line 165) and writes its *)
(* source (line 193); between these calls another handler may run.         *)
(***************************************************************************)
StepOf(f) == IF f \in DOMAIN steps THEN steps[f].step ELSE "idle"

SetStep(f, step, source) ==
  [g \in DOMAIN steps \cup {f} |->
     IF g = f THEN [step |-> step, source |-> source] ELSE steps[g]]

\* what the handler of f does with the source it has read
Handled(f) ==
  getFileWriter(WriteTo(disk, f, steps[f].source), getQueriesModule, tagged[f], f)

\* fs.readFileSync(file)
ReadSource(f) ==
  /\ pc = "tagged"
  /\ StepOf(f) = "idle"
  /\ steps' = SetStep(f, "read", disk[f])
  /\ log' = Append(log, IO("read", f, f))
  /\ UNCHANGED <<queries, tagged, pc, disk, getQueriesModule, cursor, scheduled,
                 runs, history, scan, initial, pureVars>>

\* the destination is resolved and, when it is another file, written
WriteDest(f) ==
  /\ StepOf(f) = "read"
  /\ LET r == Handled(f)
         destPath == r.destPath
     IN  IF r.threw
         THEN /\ steps' = SetStep(f, "failed", steps[f].source)
              /\ UNCHANGED <<disk, log>>
         ELSE /\ steps' = SetStep(f, "dest", steps[f].source)
              /\ IF destPath = f
                 THEN UNCHANGED <<disk, log>>
                 ELSE /\ disk' = WriteTo(disk, destPath, r.disk[destPath])
                      /\ log' = Append(log, IO("write", destPath, f))
  /\ UNCHANGED <<queries, tagged, pc, getQueriesModule, cursor, scheduled,
                 runs, history, scan, initial, pureVars>>

\* the patched source is written
WriteSource(f) ==
  /\ StepOf(f) = "dest"
  /\ LET r == Handled(f)
     IN  /\ disk' = IF f.ext = ".sql" THEN disk ELSE WriteTo(disk, f, r.disk[f])
         /\ log' = IF f.ext = ".sql" THEN log ELSE Append(log, IO("write", f, f))
  /\ steps' = SetStep(f, "done", steps[f].source)
  /\ UNCHANGED <<queries, tagged, pc, getQueriesModule, cursor, scheduled,
                 runs, history, scan, initial, pureVars>>

InitInterleaved ==
  /\ InitBatch
  /\ FreshRun

NextInterleaved ==
  \/ AssignTags
  \/ \E f \in Range(scan) : ReadSource(f)
  \/ \E f \in Range(scan) : WriteDest(f)
  \/ \E f \in Range(scan) : WriteSource(f)

SpecInterleaved == InitInterleaved /\ [][NextInterleaved]_vars

RECURSIVE RunFiles(_, _, _, _)
\* forIn over the files in order, ended by the first exception
RunFiles(d, mapping, groups, files) ==
  IF files = <<>> THEN d
  ELSE LET r == getFileWriter(d, mapping, groups[Head(files)], Head(files))
       IN  IF r.threw THEN d ELSE RunFiles(r.disk, mapping, groups, Tail(files))

\* every handler has run to its end
AllDone ==
  /\ pc = "tagged"
  /\ \A f \in Range(scan) : StepOf(f) = "done"

\* the files the handler of f reads and writes
Footprint(f) == {f, DestPath(getQueriesModule, f)}

DisjointFootprints ==
  \A f, g \in Range(scan) : f # g => Footprint(f) \cap Footprint(g) = {}

MaxLen == 3
MaxEdits == 2

Letters == <<Tok("code", "a"), Tok("code", "b"), Tok("code", "c"), Tok("code", "d")>>

Replacements == {<<>>, <<Tok("code", "X")>>, <<Tok("code", "Y"), Tok("code", "Z")>>}

EditsOver(n) ==
  {Edit(st, en, r) : st \in 0..n, en \in 0..n, r \in Replacements}

\* no two edits overlap, and no two insert at the same offset
NonOverlapping(edits) ==
  /\ ~Overlapping(edits)
  /\ \A i, j \in DOMAIN edits :
       (i # j /\ edits[i].start = edits[i].end /\ edits[j].start = edits[j].end)
         => edits[i].start # edits[j].start

InitEdits ==
  /\ \E n \in 0..MaxLen :
       \E es \in UNION {[1..k -> {e \in EditsOver(n) : e.start <= e.end}] : k \in 0..MaxEdits} :
         /\ NonOverlapping(es)
         /\ input = [source |-> SubSeq(Letters, 1, n), edits |-> es]
  /\ output = <<>>
  /\ pc = "start"
  /\ queries = <<>>
  /\ tagged = <<>>
  /\ NoFiles

\* lines 184-188 applied to the edits
Apply ==
  /\ pc = "start"
  /\ pc' = "done"
  /\ output' = ApplyEdits(input.source, input.edits)
  /\ UNCHANGED <<queries, tagged, disk, getQueriesModule, cursor, log, scheduled,
                 runs, history, scan, initial, steps, input>>

NextEdits == Apply

SpecEdits == InitEdits /\ [][NextEdits]_vars

RECURSIVE ReplaceFrom(_, _, _)
\* every span replaced at its original coordinates, the edits in text order
ReplaceFrom(source, pos, edits) ==
  IF edits = <<>> THEN SliceFrom(source, pos)
  ELSE Slice(source, pos, Head(edits).start) \o Head(edits).replacement
       \o ReplaceFrom(source, Head(edits).end, Tail(edits))

Simultaneous(source, edits) ==
  ReplaceFrom(source, 0,
    SortBy(edits, [i \in DOMAIN edits |->
                     edits[i].start * (Len(source) + 1) + edits[i].end]))

TiedBeforeInsertion(edits, i) ==
  \E j \in DOMAIN edits :
    /\ i < j
    /\ edits[i].start < edits[i].end
    /\ edits[j].start = edits[j].end
    /\ edits[j].end = edits[i].end

\* such an edit leaves the insertion point where it was
KeepsInsertionPoint(source, e) ==
  \/ Len(e.replacement) = e.end - e.start
  \/ e.end = Len(source) /\ Len(e.replacement) <= e.end - e.start

====
